---- MODULE Spec2Model ----
(***************************************************************************)
(* A model of the ETD depositor (src/etddepositor.py): the permissions     *)
(* validator, the metadata extractor, the file assembler, the batch loop   *)
(* of create_dspace_import and post_import_processing.                     *)
(*                                                                         *)
(* Text is modelled at character level: a Python str is a sequence of      *)
(* one-character strings, so that startswith, "in", split and strip are    *)
(* computed as Python computes them.                                       *)
(***************************************************************************)
EXTENDS Integers, Sequences, FiniteSets, TLC

(***************************************************************************)
(* Bounds of the model.                                                    *)
(***************************************************************************)
\* Number of packages found in the ready area.
NumPackages == 2
\* Longest compliance document (in lines) given to the validator alone.
MaxLines == 2
\* Longest text drawn for a function called on its own.
MaxText == 2
\* Most subject elements of one metadata file.
MaxSubjects == 3
\* Most elements of a list-valued field.
MaxItems == 2

(***************************************************************************)
(* Python str operations on character sequences.                           *)
(***************************************************************************)
IsSpace(c) == c \in {" ", "\n", "\t", "\r"}

RECURSIVE lstrip(_)
lstrip(s) == IF s # <<>> /\ IsSpace(Head(s)) THEN lstrip(Tail(s)) ELSE s

RECURSIVE rstrip(_)
rstrip(s) ==
    IF s # <<>> /\ IsSpace(s[Len(s)]) THEN rstrip(SubSeq(s, 1, Len(s) - 1)) ELSE s

\* str.strip()
strip(s) == rstrip(lstrip(s))

\* str.startswith(prefix)
startswith(s, prefix) ==
    /\ Len(prefix) <= Len(s)
    /\ SubSeq(s, 1, Len(prefix)) = prefix

\* sub in s
contains(s, sub) ==
    \E i \in 1..(Len(s) + 1) :
        /\ i + Len(sub) - 1 <= Len(s)
        /\ SubSeq(s, i, i + Len(sub) - 1) = sub

\* str.split(sep), sep non-empty: the pieces between the occurrences of sep,
\* scanned left to right.
RECURSIVE split(_, _)
split(s, sep) ==
    IF ~contains(s, sep)
    THEN <<s>>
    ELSE LET i == CHOOSE k \in 1..Len(s) :
                      /\ k + Len(sep) - 1 <= Len(s)
                      /\ SubSeq(s, k, k + Len(sep) - 1) = sep
                      /\ \A j \in 1..(k - 1) :
                             SubSeq(s, j, j + Len(sep) - 1) # sep
         IN  <<SubSeq(s, 1, i - 1)>> \o split(SubSeq(s, i + Len(sep), Len(s)), sep)

\* Concatenation of a sequence of texts.
RECURSIVE Concat(_)
Concat(ss) == IF ss = <<>> THEN <<>> ELSE Head(ss) \o Concat(Tail(ss))

(***************************************************************************)
(* Outcome of a call: a normal return with a value, or a raised exception. *)
(***************************************************************************)
Returned(v) == [exc |-> "none", value |-> v]
Raised(e, m) == [exc |-> e, msg |-> m]

(***************************************************************************)
(* Text literals used by the code and by the sample inputs.                *)
(***************************************************************************)
StudentIDPrefix == <<"S","t","u","d","e","n","t"," ","I","D">>
ThesisIDPrefix == <<"T","h","e","s","i","s"," ","I","D">>
EmbargoExpiry == <<"E","m","b","a","r","g","o"," ","E","x","p","i","r","y">>
Sep == <<"|","|">>
Y == <<"Y">>
N == <<"N">>
FIPPA == <<"F","I","P","P","A">>
LAC == <<"L","A","C">>

\* Subject codes and headings of the subject table.
B001 == <<"B","1">>
B013 == <<"B","1","3">>
B014 == <<"B","1","4">>
Agriculture == <<"A","g","r",".">>
Wood == <<"W","o","o","d",".">>
ForestProducts == <<"F","o","r","e","s","t"," ","p",".">>
Biotechnology == <<"B","i","o","t",".">>

\* The mappings file as loaded by load_mappings: the agreements table of the
\* deployment (a required and an optional agreement) and a subject table in
\* which two codes share a heading.
LoadedMappings ==
    [agreements |->
        [n \in {FIPPA, LAC} |->
            IF n = FIPPA THEN [identifier |-> "fs", required |-> TRUE]
                         ELSE [identifier |-> "lnel", required |-> FALSE]],
     lc_subject |->
        [c \in {B001, B013, B014} |->
            IF c = B001 THEN << <<<<"a">>, Agriculture>> >>
            ELSE IF c = B013
            THEN << <<<<"a">>, Wood>>, <<<<"a">>, ForestProducts, <<"x">>, Biotechnology>> >>
            ELSE << <<<<"a">>, Wood>> >>],
     abbreviation |-> [d \in {<<"P","h","D">>} |-> <<"Ph.D.">>],
     discipline |-> [d \in {<<"B","i","o">>} |-> <<"Biology">>]]

(***************************************************************************)
(* process_agreements: the permissions validator.                          *)
(***************************************************************************)
\* The branch taken for one (stripped) line: what the if/elif chain of the
\* loop body decides.
LineBranch(line, m) ==
    IF startswith(line, StudentIDPrefix) \/ startswith(line, ThesisIDPrefix)
    THEN "informational"
    ELSE IF contains(line, EmbargoExpiry)
    THEN "embargo"
    ELSE IF \E name \in DOMAIN m.agreements : startswith(line, name)
    THEN "agreement"
    ELSE "unexpected"

\* The agreement branch with the identifier appended whatever the flag of
\* an optional agreement says.
AgreementLineIgnoringFlag(line, m) ==
    LET line_split == split(line, Sep)
    IN  IF line_split[1] \notin DOMAIN m.agreements
        THEN Raised("MetadataError", [kind |-> "invalid", line |-> line])
        ELSE IF Len(line_split) < 3
        THEN Raised("IndexError", [kind |-> "list index out of range", line |-> line])
        ELSE LET agreement == m.agreements[line_split[1]]
                 signed == line_split[3] = Y
             IN  IF agreement.required /\ ~signed
                 THEN Raised("MetadataError",
                             [kind |-> "required but not signed", line |-> line])
                 ELSE Returned(<<agreement.identifier>>)

\* The agreement branch of the loop body: the exception it raises, or the
\* identifiers it appends.
AgreementLine(line, m) ==
    LET line_split == split(line, Sep)
    IN  IF line_split[1] \notin DOMAIN m.agreements
        THEN Raised("MetadataError", [kind |-> "invalid", line |-> line])
        ELSE IF Len(line_split) < 3
        THEN Raised("IndexError", [kind |-> "list index out of range", line |-> line])
        ELSE LET agreement == m.agreements[line_split[1]]
                 signed == line_split[3] = Y
             IN  IF agreement.required /\ ~signed
                 THEN Raised("MetadataError",
                             [kind |-> "required but not signed", line |-> line])
                 ELSE IF signed
                 THEN Returned(<<agreement.identifier>>)
                 ELSE Returned(<<>>)

RECURSIVE process_agreements_loop(_, _, _, _, _)
process_agreements_loop(content_lines, i, agreements, embargo_dates, m) ==
    IF i > Len(content_lines)
    THEN Returned([agreements |-> agreements, embargo_dates |-> embargo_dates])
    ELSE LET line == strip(content_lines[i])
             branch == LineBranch(line, m)
         IN  IF branch = "informational"
             THEN process_agreements_loop(content_lines, i + 1, agreements,
                                          embargo_dates, m)
             ELSE IF branch = "embargo"
             THEN process_agreements_loop(content_lines, i + 1, agreements,
                                          Append(embargo_dates, line), m)
             ELSE IF branch = "agreement"
             THEN LET r == AgreementLine(line, m)
                  IN  IF r.exc # "none"
                      THEN r
                      ELSE process_agreements_loop(content_lines, i + 1,
                                                   agreements \o r.value,
                                                   embargo_dates, m)
             ELSE Raised("MetadataError", [kind |-> "was not expected", line |-> line])

process_agreements(content_lines, m) ==
    process_agreements_loop(content_lines, 1, <<>>, <<>>, m)

(***************************************************************************)
(* process_subjects.                                                       *)
(***************************************************************************)
\* The text of an element without text.
None == <<"None">>

\* s.rstrip("."): every trailing period removed.
RECURSIVE rstrip_period(_)
rstrip_period(s) ==
    IF s # <<>> /\ s[Len(s)] = "." THEN rstrip_period(SubSeq(s, 1, Len(s) - 1))
    ELSE s

\* Lines 288-291: the code of an element, one trailing period removed.
subject_code(text) ==
    LET c == strip(text)
    IN  IF c # <<>> /\ c[Len(c)] = "." THEN SubSeq(c, 1, Len(c) - 1) ELSE c

\* Lines 287-295: the mapped tuples of the known codes, element by element.
RECURSIVE mapped_subjects(_, _, _)
mapped_subjects(subject_elements, i, m) ==
    IF i > Len(subject_elements) THEN <<>>
    ELSE (IF subject_code(subject_elements[i]) \in DOMAIN m.lc_subject
          THEN m.lc_subject[subject_code(subject_elements[i])]
          ELSE <<>>) \o mapped_subjects(subject_elements, i + 1, m)

\* Every tuple kept.
subjects_all_kept(subjects, i, deduplicated) == subjects

\* Lines 296-299: a tuple is appended unless it is in the list already.
RECURSIVE deduplicated_subjects(_, _, _)
deduplicated_subjects(subjects, i, deduplicated) ==
    IF i > Len(subjects) THEN deduplicated
    ELSE deduplicated_subjects(subjects, i + 1,
            IF \E k \in DOMAIN deduplicated : deduplicated[k] = subjects[i]
            THEN deduplicated
            ELSE Append(deduplicated, subjects[i]))

\* Lines 301-305: the heading of every tuple of more than one element.
RECURSIVE subject_values(_, _)
subject_values(deduplicated, i) ==
    IF i > Len(deduplicated) THEN <<>>
    ELSE (IF Len(deduplicated[i]) > 1
          THEN <<rstrip_period(deduplicated[i][2])>>
          ELSE <<>>) \o subject_values(deduplicated, i + 1)

\* process_subjects: the pair returned at line 306; an element without text
\* makes subject_element.text.strip() raise at line 288.
process_subjects(subject_elements, m) ==
    IF \E i \in DOMAIN subject_elements : subject_elements[i] = None
    THEN Raised("AttributeError",
                [kind |-> "'NoneType' object has no attribute 'strip'",
                 line |-> <<>>])
    ELSE LET deduplicated ==
                deduplicated_subjects(mapped_subjects(subject_elements, 1, m),
                                      1, <<>>)
         IN  Returned(<<deduplicated, subject_values(deduplicated, 1)>>)

(***************************************************************************)
(* Decimal numbers in text.                                                *)
(***************************************************************************)
DigitChars == <<"0","1","2","3","4","5","6","7","8","9">>
IsDigit(c) == \E i \in 1..Len(DigitChars) : DigitChars[i] = c
DigitVal(c) == (CHOOSE i \in 1..Len(DigitChars) : DigitChars[i] = c) - 1
IsDigits(s) == s # <<>> /\ \A i \in 1..Len(s) : IsDigit(s[i])

\* int(s) for a text of digits.
RECURSIVE NumVal(_)
NumVal(s) ==
    IF s = <<>> THEN 0
    ELSE 10 * NumVal(SubSeq(s, 1, Len(s) - 1)) + DigitVal(s[Len(s)])

\* str(n) for a natural number.
RECURSIVE NumText(_)
NumText(n) ==
    IF n < 10 THEN <<DigitChars[n + 1]>>
    ELSE NumText(n \div 10) \o <<DigitChars[(n % 10) + 1]>>

IsLeap(y) == (y % 4 = 0 /\ y % 100 # 0) \/ y % 400 = 0
DaysInMonth(y, m) ==
    IF m = 2 THEN (IF IsLeap(y) THEN 29 ELSE 28)
    ELSE IF m \in {4, 6, 9, 11} THEN 30 ELSE 31

(***************************************************************************)
(* The metadata extractor.                                                 *)
(***************************************************************************)
\* datetime.strptime(date, "%Y-%m-%d").year, or 0 for ValueError.
StrptimeYear(date) ==
    LET parts == split(date, <<"-">>)
    IN  IF /\ Len(parts) = 3
           /\ IsDigits(parts[1]) /\ Len(parts[1]) = 4 /\ NumVal(parts[1]) >= 1
           /\ IsDigits(parts[2]) /\ Len(parts[2]) <= 2
           /\ NumVal(parts[2]) \in 1..12
           /\ IsDigits(parts[3]) /\ Len(parts[3]) <= 2
           /\ NumVal(parts[3]) \in 1..DaysInMonth(NumVal(parts[1]), NumVal(parts[2]))
        THEN NumVal(parts[1])
        ELSE 0

process_date(date) ==
    LET d == strip(date)
    IN  IF d = <<>>
        THEN Raised("MetadataError", [kind |-> "date tag is missing", line |-> d])
        ELSE IF StrptimeYear(d) = 0
        THEN Raised("MetadataError", [kind |-> "not properly formatted", line |-> d])
        ELSE Returned([date |-> d, year |-> NumText(StrptimeYear(d))])

process_language(language) ==
    LET l == strip(language)
    IN  IF l = <<"f","r","e">> \/ l = <<"f","r","a">> THEN Returned(<<"f","r">>)
        ELSE IF l = <<"g","e","r">> \/ l = <<"d","e","u">> THEN Returned(<<"d","e">>)
        ELSE IF l = <<"s","p","a">> THEN Returned(<<"s","p">>)
        ELSE IF l = <<"e","n","g">> \/ l = <<>> THEN Returned(<<"e","n">>)
        ELSE Raised("MetadataError", [kind |-> "unexpected language", line |-> l])

\* process_degree_level without the check of line 380.
process_degree_level_unchecked(level) ==
    LET l == strip(level)
    IN  IF l = <<>>
        THEN Raised("MetadataError", [kind |-> "degree level is missing", line |-> l])
        ELSE IF l = <<"0">>
        THEN Raised("MetadataError", [kind |-> "undergraduate work", line |-> l])
        ELSE IF l = <<"1">> THEN Returned("Master's") ELSE Returned("Doctoral")

process_degree_level(level) ==
    LET l == strip(level)
    IN  IF l = <<>>
        THEN Raised("MetadataError", [kind |-> "degree level is missing", line |-> l])
        ELSE IF l = <<"0">>
        THEN Raised("MetadataError", [kind |-> "undergraduate work", line |-> l])
        ELSE IF l # <<"1">> /\ l # <<"2">>
        THEN Raised("MetadataError", [kind |-> "invalid degree level", line |-> l])
        ELSE IF l = <<"1">> THEN Returned("Master's") ELSE Returned("Doctoral")

DOI_PREFIX == <<"1","0",".","2","2","2","1","5">>

\* A DOI minted without the sequence number.
MintDoiWithoutSequence(year, doi_ident) ==
    DOI_PREFIX \o <<"/","e","t","d","/">> \o year

\* The DOI string of line 473: f"{DOI_PREFIX}/etd/{year}-{doi_ident}".
MintDoi(year, doi_ident) ==
    DOI_PREFIX \o <<"/","e","t","d","/">> \o year \o <<"-">> \o NumText(doi_ident)

\* create_package_data: the checks in the order of the code; the first one
\* that fails raises.
\* The marker of a value to review by hand (line 100).
FLAG == <<"FLAG">>

\* process_degree, lines 354-362.
process_degree(degree) ==
    LET d == strip(degree)
    IN  IF d = <<"Master of Architectural Stud">>
        THEN <<"Master of Architectural Studies">>
        ELSE IF d = <<"Master of Information Tech">>
        THEN <<"Master of Information Technology">>
        ELSE IF d = <<>> THEN FLAG
        ELSE d

\* A lookup that stores the default under a key it does not find.
dict_setdefault(d, key, default) ==
    [value |-> IF key \in DOMAIN d THEN d[key] ELSE default,
     dict |-> IF key \in DOMAIN d THEN d
              ELSE [k \in DOMAIN d \cup {key} |-> IF k = key THEN default ELSE d[k]]]

\* dict.get(key, default), lines 366 and 371: the value returned, and the
\* dict as the call leaves it.
dict_get(d, key, default) ==
    [value |-> IF key \in DOMAIN d THEN d[key] ELSE default,
     dict |-> d]

process_degree_abbreviation(degree, m) == dict_get(m.abbreviation, degree, FLAG)

process_degree_discipline(discipline, m) ==
    dict_get(m.discipline, strip(discipline), FLAG)

\* The mappings object after create_package_data ran on it: the function
\* reaches the lookups of lines 442 and 466 when nothing was raised before
\* them (lines 404, 409, 432, 435).
mappings_after_create_package_data(xml, m) ==
    IF \/ strip(xml.title) = <<>>
       \/ strip(xml.creator) = <<>>
       \/ process_date(xml.date).exc # "none"
       \/ process_language(xml.language).exc # "none"
    THEN m
    ELSE [m EXCEPT
             !.abbreviation =
                 process_degree_abbreviation(process_degree(xml.degree), m).dict,
             !.discipline = process_degree_discipline(xml.discipline, m).dict]

create_package_data(xml, student_id, doi_ident, agreements, embargo_info, m) ==
    LET title == strip(xml.title)
        creator == strip(xml.creator)
        d == process_date(xml.date)
        language == process_language(xml.language)
        degree == process_degree(xml.degree)
        level == process_degree_level(xml.level)
    IN  IF title = <<>>
        THEN Raised("MetadataError", [kind |-> "title tag is missing", line |-> <<>>])
        ELSE IF creator = <<>>
        THEN Raised("MetadataError", [kind |-> "creator tag is missing", line |-> <<>>])
        ELSE IF d.exc # "none" THEN d
        ELSE IF language.exc # "none" THEN language
        ELSE IF level.exc # "none" THEN level
        ELSE Returned([package_files |-> <<>>,
                       creator |-> creator,
                       date |-> d.value.year,
                       doi |-> MintDoi(d.value.year, doi_ident),
                       language |-> language.value,
                       title |-> title,
                       abbreviation |-> process_degree_abbreviation(degree, m).value,
                       agreements |-> agreements,
                       degree |-> degree,
                       degree_discipline |->
                           process_degree_discipline(xml.discipline, m).value,
                       degree_level |-> level.value,
                       url |-> <<>>,
                       handle |-> <<>>,
                       student_id |-> student_id,
                       embargo_info |-> embargo_info])

(***************************************************************************)
(* The file assembler.                                                     *)
(***************************************************************************)
UpperChars == <<"A","B","C","D","E","F","G","H","I","J","K","L","M",
                "N","O","P","Q","R","S","T","U","V","W","X","Y","Z">>
LowerChars == <<"a","b","c","d","e","f","g","h","i","j","k","l","m",
                "n","o","p","q","r","s","t","u","v","w","x","y","z">>
IsUpper(c) == \E i \in 1..Len(UpperChars) : UpperChars[i] = c
IsLower(c) == \E i \in 1..Len(LowerChars) : LowerChars[i] = c

\* str.lower()
lower(s) ==
    [i \in 1..Len(s) |->
        IF IsUpper(s[i])
        THEN LowerChars[CHOOSE k \in 1..Len(UpperChars) : UpperChars[k] = s[i]]
        ELSE s[i]]

\* str.replace(old, new) for a one-character old.
replace(s, old, new) == [i \in 1..Len(s) |-> IF s[i] = old THEN new ELSE s[i]]

\* "".join(filter(lambda x: x in ascii_letters_digits, word))
RECURSIVE filter_ascii_letters_digits(_)
filter_ascii_letters_digits(w) ==
    IF w = <<>> THEN <<>>
    ELSE (IF IsUpper(Head(w)) \/ IsLower(Head(w)) \/ IsDigit(Head(w))
          THEN <<Head(w)>> ELSE <<>>)
         \o filter_ascii_letters_digits(Tail(w))

\* Length of the first run of non-space characters of s.
RECURSIVE WordLen(_)
WordLen(s) == IF s = <<>> \/ IsSpace(Head(s)) THEN 0 ELSE 1 + WordLen(Tail(s))

\* str.split() without argument: the whitespace-delimited words.
RECURSIVE split_words(_)
split_words(s) ==
    LET t == lstrip(s)
    IN  IF t = <<>> THEN <<>>
        ELSE <<SubSeq(t, 1, WordLen(t))>>
             \o split_words(SubSeq(t, WordLen(t) + 1, Len(t)))

\* sep.join(words)
RECURSIVE join(_, _)
join(sep, words) ==
    IF words = <<>> THEN <<>>
    ELSE IF Len(words) = 1 THEN words[1]
    ELSE words[1] \o sep \o join(sep, Tail(words))

\* The length budget of the destination file name (line 548).
TitleBudget == 120

\* The loop of lines 544-552 over the title's words.
RECURSIVE title_words_loop(_, _, _, _, _)
title_words_loop(words, i, dest_len, title_words, title_words_len) ==
    IF i > Len(words) THEN title_words
    ELSE IF dest_len + title_words_len > TitleBudget THEN title_words
    ELSE LET title_word_filtered == filter_ascii_letters_digits(words[i])
         IN  title_words_loop(words, i + 1, dest_len,
                              Append(title_words, title_word_filtered),
                              title_words_len + Len(title_word_filtered))

\* Lines 531-556: the destination file name of the thesis PDF.
dest_file_name(creator, title) ==
    LET first == replace(replace(lower(creator), " ", "-"), ",", "-") \o <<"-","-">>
        title_words == title_words_loop(split_words(title), 1, Len(first), <<>>, 0)
    IN  lower(first \o join(<<"-">>, title_words)) \o <<".","p","d","f">>

\* Lines 515-524: the candidate picked among the *pdf files of the data area,
\* given as their sizes in glob order; 0 stands for None.
RECURSIVE largest_pdf(_, _, _, _)
largest_pdf(sizes, i, thesis_file, largest_file_size) ==
    IF i > Len(sizes) THEN thesis_file
    ELSE IF sizes[i] > largest_file_size
    THEN largest_pdf(sizes, i + 1, i, sizes[i])
    ELSE largest_pdf(sizes, i + 1, thesis_file, largest_file_size)

\* copy_thesis_pdf: the index of the copied candidate and the name it is
\* copied to, or MetadataError.
copy_thesis_pdf(package_data, pdf_sizes) ==
    LET thesis_file == largest_pdf(pdf_sizes, 1, 0, 0)
    IN  IF thesis_file = 0
        THEN Raised("MetadataError", [kind |-> "could not find pdf file", line |-> <<>>])
        ELSE Returned([source |-> thesis_file,
                       name |-> dest_file_name(package_data.creator,
                                               package_data.title)])

\* The list with the archive put first.
copy_package_files_archive_first(package_data, pdf_sizes, has_supplemental) ==
    LET t == copy_thesis_pdf(package_data, pdf_sizes)
    IN  IF t.exc # "none" THEN t
        ELSE LET thesis_file_name == t.value.name
                 archive_file_name ==
                     SubSeq(thesis_file_name, 1, Len(thesis_file_name) - 4)
                     \o <<"-","s","u","p","p","l","e","m","e","n","t","a","l",
                          ".","z","i","p">>
             IN  Returned(IF has_supplemental
                          THEN <<archive_file_name, thesis_file_name>>
                          ELSE <<thesis_file_name>>)

\* copy_package_files: the package_files list (primary first, then the
\* archive of the supplemental directory when there is one), or the error of
\* copy_thesis_pdf.
copy_package_files(package_data, pdf_sizes, has_supplemental) ==
    LET t == copy_thesis_pdf(package_data, pdf_sizes)
    IN  IF t.exc # "none" THEN t
        ELSE LET thesis_file_name == t.value.name
                 archive_file_name ==
                     SubSeq(thesis_file_name, 1, Len(thesis_file_name) - 4)
                     \o <<"-","s","u","p","p","l","e","m","e","n","t","a","l",
                          ".","z","i","p">>
             IN  Returned(IF has_supplemental
                          THEN <<thesis_file_name, archive_file_name>>
                          ELSE <<thesis_file_name>>)

(***************************************************************************)
(* MARC record and Crossref element builders.                              *)
(***************************************************************************)
\* Position of the first c in s, 0 when there is none.
IndexOf(s, c) ==
    IF \E i \in 1..Len(s) : s[i] = c
    THEN CHOOSE i \in 1..Len(s) : s[i] = c /\ \A j \in 1..(i - 1) : s[j] # c
    ELSE 0

\* create_marc_record, lines 1128-1157. The module imports the class
\* (line 3: from datetime import datetime), so datetime.date is the method
\* descriptor datetime.datetime.date and datetime.date.today() at line 1157
\* raises AttributeError on every call; the lines after it are never run.
datetime_date_today ==
    Raised("AttributeError",
           [kind |-> "'method_descriptor' object has no attribute 'today'",
            line |-> <<>>])

\* Lines 1322-1330: the subject tuples that get a 650 field, in list order.
marc_subject_fields(deduped_subjects) ==
    SelectSeq(deduped_subjects, LAMBDA subject_tags : Len(subject_tags) % 2 = 0)

\* create_marc_record. Before line 1157, subtitle[-1] at line 1134 raises
\* IndexError for a title with nothing after its first colon. The record
\* written at lines 1375-1378 is given by the file it is written to and its
\* 650 fields.
create_marc_record(package_data) ==
    LET colon == IndexOf(package_data.title, ":")
        subtitle == strip(SubSeq(package_data.title, colon + 1,
                                 Len(package_data.title)))
    IN  IF colon # 0 /\ subtitle = <<>>
        THEN Raised("IndexError", [kind |-> "string index out of range", line |-> <<>>])
        ELSE LET today == datetime_date_today
             IN  IF today.exc # "none" THEN today
                 ELSE Returned([marc_file |-> package_data.student_id,
                                subject_fields |->
                                    marc_subject_fields(package_data.deduped_subjects)])

\* create_dissertation_element.
create_dissertation_element(package_data) ==
    LET split_name == split(package_data.creator, <<",">>)
    IN  [surname |-> strip(split_name[1]),
         given_name |-> IF Len(split_name) = 2 THEN strip(split_name[2]) ELSE <<>>,
         title |-> package_data.title,
         year |-> package_data.date,
         doi |-> package_data.doi,
         resource |-> package_data.handle]

(***************************************************************************)
(* State.                                                                  *)
(***************************************************************************)
VARIABLES
    \* inputs of the run (process, lines 1788-1865)
    invalid_ok, doi_start, skipped_ids, mappings,
    \* position: the function being run, and the statement of the loop body
    pc, step, error,
    \* create_dspace_import
    index, locals, doi_ident, dspace_import_packages, skipped_import_packages,
    failure_log, skipped_log,
    \* the file system: files area, ready area, skipped area, MARC area
    files_path, ready, skipped_dir, marc_path,
    \* the repository: number of items created
    dspace_items,
    \* post_import_processing
    post_index, completed_packages, body_element, post_failure_log,
    \* the permissions validator run on its own
    content_lines, today, result,
    \* the resolver
    attempt, waited, lookups, resolved,
    \* one function called on its own: the call and what it returned
    call, returned

inputVars == <<invalid_ok, doi_start, skipped_ids, mappings>>
importVars == <<index, locals, doi_ident, dspace_import_packages,
                skipped_import_packages, failure_log, skipped_log,
                files_path, ready, skipped_dir, dspace_items>>
postVars == <<post_index, completed_packages, body_element, post_failure_log,
              marc_path>>
validatorVars == <<content_lines, today, result>>
resolverVars == <<attempt, waited, lookups, resolved>>
callVars == <<call, returned>>
vars == <<inputVars, pc, step, error, importVars, postVars, validatorVars,
          resolverVars,
                   callVars>>

(***************************************************************************)
(* Inputs the model draws from.                                            *)
(***************************************************************************)
\* The packages of the ready area, in the order find_etd_packages lists them;
\* student_id is the base name of the package directory.
Packages == 1..NumPackages
student_id(p) == <<"1","0","0">> \o NumText(p)

DoiStarts == {1, 9}

\* The skip_ids lists of the skipped-mappings file the model draws from.
SkippedIdSets == {{}, {student_id(1)}, {student_id(NumPackages), <<"9","9">>}}

Line(parts) == Concat(parts)
NL == <<"\n">>

\* Compliance documents met in a batch.
DocValid == <<StudentIDPrefix \o <<":"," ","1">> \o NL,
              FIPPA \o Sep \o <<"1">> \o Sep \o Y \o NL,
              LAC \o Sep \o <<"2">> \o Sep \o N \o NL>>
DocEmbargo == <<EmbargoExpiry \o <<":"," ","1","3","-","A","U","G","-","9","9">> \o NL,
                FIPPA \o Sep \o <<"1">> \o Sep \o Y \o NL,
                LAC \o Sep \o <<"2">> \o Sep \o Y \o NL>>
DocNotSigned == <<FIPPA \o Sep \o <<"1">> \o Sep \o N \o NL>>
DocWeird == <<<<"B","O","O","!">>>>
DocMalformed == <<FIPPA \o Sep \o <<"1">> \o NL>>
SampleDocs == {DocValid, DocEmbargo, DocNotSigned, DocWeird, DocMalformed}

\* Descriptive metadata documents met in a batch.
XmlGood == [title |-> <<"A"," ","b">>, creator |-> <<"D","o","e",","," ","J">>,
            date |-> <<"2","0","2","1","-","0","1","-","0","1">>,
            language |-> <<"e","n","g">>, level |-> <<"1">>,
            degree |-> <<"P","h","D">>, discipline |-> <<" ","B","i","o">>]
SampleXml ==
    { XmlGood,
      [XmlGood EXCEPT !.date = <<"2","0","2","0","-","1","2","-","3","1">>,
                      !.title = <<"A",":">>, !.level = <<" ","2">>,
                      !.degree = <<" ">>, !.discipline = <<"G","e","o">>],
      [XmlGood EXCEPT !.title = <<" ">>],
      [XmlGood EXCEPT !.date = <<"1","3","-","1","3","-","1","3">>],
      [XmlGood EXCEPT !.level = <<"0">>] }

\* Sizes of the *pdf files of a data area, in glob order.
SamplePdfSizes == {<<>>, <<0>>, <<5>>, <<3, 8>>}

dspace_base_url == <<"https://", "carleton-dev.scholaris.ca">>

NoLocals == [agreements |-> <<>>, embargo_info |-> <<>>, package_data |-> <<>>]
NoError == [exc |-> "none", fn |-> "", at |-> ""]

(***************************************************************************)
(* create_dspace_import.                                                   *)
(***************************************************************************)
\* Handlers that leave MetadataError out.
CaughtWithoutMetadataError(exc) ==
    exc \in {"ParseError", "MissingFileError", "FileNotFoundError"}

\* A handler for every exception.
CaughtAnyException(exc) == TRUE

\* The except clauses of lines 1014-1029.
Caught(exc) ==
    exc \in {"ParseError", "MissingFileError", "MetadataError", "FileNotFoundError"}

ErrPrefix(exc) ==
    IF exc = "ParseError" THEN "Error parsing XML, "
    ELSE IF exc = "MissingFileError" THEN "Required file is missing, "
    ELSE IF exc = "MetadataError" THEN "Metadata error, "
    ELSE "File Not Found, "

\* Lines 937-942 and 953-955: the path of a file of data/meta.
meta_path(student, suffix) ==
    <<"ready/">> \o student \o <<"/data/meta/">> \o student \o <<suffix>>

\* str(e) of a raised exception: an OSError names the file, the others give
\* their message.
ErrStr(r) ==
    IF r.exc = "FileNotFoundError"
    THEN <<"[Errno 2] ", r.msg.kind, ": '">> \o r.msg.line \o <<"'">>
    ELSE r.msg.line \o <<r.msg.kind>>

\* A log entry: its text, and (for reading the log) the iteration that wrote
\* it and the class of the error it reports.
LogEntry(i, exc, text) == [iteration |-> i, exc |-> exc, text |-> text]

\* The counter advanced at the end of the try suite instead, before the
\* skipped packages leave it.
doi_ident_after_try(doi, outcome) == IF outcome # "except" THEN doi + 1 ELSE doi

\* Lines 1030-1031: the else clause of the try statement runs, and advances
\* the counter, only when the try suite ended without an exception and
\* without continue.
doi_ident_after(doi, outcome) == IF outcome = "else" THEN doi + 1 ELSE doi

\* The imported list with the package appended at the end of the try suite
\* instead, before the skipped packages leave it.
imported_after_try(packages, package_data, outcome) ==
    IF outcome # "except" THEN Append(packages, package_data) ELSE packages

\* Lines 1030 and 1040: the else clause appends the package to the imported
\* list only when the try suite ended without an exception and without
\* continue (line 991).
imported_after(packages, package_data, outcome) ==
    IF outcome = "else" THEN Append(packages, package_data) ELSE packages

\* The files area after the named files of a package were written to it.
copied(files, names, source) ==
    {f \in files : \A i \in 1..Len(names) : f.name # names[i]}
    \cup {[name |-> names[i], source |-> source] : i \in 1..Len(names)}

\* The copy made before the candidate check.
files_after_copy_unchecked(files, r, source) ==
    copied(files,
           IF r.exc = "none" THEN r.value ELSE <<<<"-","-",".","p","d","f">>>>,
           source)

\* copy_package_files writes to the files area (lines 559 and 578) only after
\* the candidate check of line 526 passed.
files_after_copy(files, r, source) ==
    IF r.exc = "none" THEN copied(files, r.value, source) ELSE files

\* The try suite raised r at the statement being run: the matching except
\* clause logs it and the loop goes on, anything else leaves the function.
Except(r) ==
    /\ IF Caught(r.exc)
       THEN /\ failure_log' = Append(failure_log,
                  LogEntry(index, r.exc,
                           <<ErrPrefix(r.exc)>> \o ErrStr(r) \o <<".">>))
            /\ index' = index + 1
            /\ step' = "bag"
            /\ UNCHANGED <<pc, error>>
       ELSE /\ pc' = "aborted"
            /\ error' = [exc |-> r.exc, fn |-> "create_dspace_import", at |-> step]
            /\ UNCHANGED <<failure_log, index, step>>
    /\ locals' = NoLocals
    /\ doi_ident' = doi_ident_after(doi_ident, "except")

\* Lines 926-934: the BagIt check.
CheckBag ==
    /\ pc = "create_dspace_import" /\ step = "bag" /\ index <= NumPackages
    /\ \E is_valid \in BOOLEAN :
          IF ~is_valid /\ ~invalid_ok
          THEN /\ failure_log' = Append(failure_log,
                     LogEntry(index, "InvalidBag",
                              student_id(index) \o <<": ", "Invalid BagIt.">>))
               /\ index' = index + 1
               /\ UNCHANGED step
          ELSE /\ step' = "permissions"
               /\ UNCHANGED <<failure_log, index>>
    /\ UNCHANGED <<inputVars, pc, error, locals, doi_ident, dspace_import_packages,
                   skipped_import_packages, skipped_log, files_path, ready,
                   skipped_dir, dspace_items, postVars, validatorVars, resolverVars,
                   callVars>>

\* Lines 937-951: the permissions document is read and validated.
ReadPermissions ==
    /\ pc = "create_dspace_import" /\ step = "permissions"
    /\ \/ \* open() finds no permissions file
          Except(Raised("FileNotFoundError",
                        [kind |-> "No such file or directory",
                         line |-> meta_path(student_id(index),
                                            "_permissions_meta.txt")]))
       \/ \E doc \in SampleDocs :
             LET r == process_agreements(doc, mappings)
             IN  IF r.exc # "none"
                 THEN Except(r)
                 ELSE /\ locals' = [locals EXCEPT
                                       !.agreements = r.value.agreements,
                                       !.embargo_info = r.value.embargo_dates]
                      /\ step' = "metadata"
                      /\ UNCHANGED <<pc, error, failure_log, index, doi_ident>>
    /\ UNCHANGED <<inputVars, dspace_import_packages, skipped_import_packages,
                   skipped_log, files_path, ready, skipped_dir, dspace_items,
                   postVars, validatorVars, resolverVars,
                   callVars>>

\* Lines 953-966: the descriptive metadata is parsed and extracted.
ExtractMetadata ==
    /\ pc = "create_dspace_import" /\ step = "metadata"
    /\ \/ /\ Except(Raised("FileNotFoundError",
                           [kind |-> "No such file or directory",
                            line |-> meta_path(student_id(index),
                                               "_etdms_meta.xml")]))
          /\ UNCHANGED mappings
       \/ /\ Except(Raised("ParseError", [kind |-> "syntax error", line |-> <<>>]))
          /\ UNCHANGED mappings
       \/ \E xml \in SampleXml :
             /\ LET r == create_package_data(xml, student_id(index), doi_ident,
                                             locals.agreements, locals.embargo_info,
                                             mappings)
                IN  IF r.exc # "none"
                    THEN Except(r)
                    ELSE /\ locals' = [locals EXCEPT !.package_data = r.value]
                         /\ step' = "files"
                         /\ UNCHANGED <<pc, error, failure_log, index, doi_ident>>
             /\ mappings' = mappings_after_create_package_data(xml, mappings)
    /\ UNCHANGED <<invalid_ok, doi_start, skipped_ids,
                   dspace_import_packages, skipped_import_packages,
                   skipped_log, files_path, ready, skipped_dir, dspace_items,
                   postVars, validatorVars, resolverVars,
                   callVars>>

\* Lines 967-973: the files are staged and the item payload is built.
CopyPackageFiles ==
    /\ pc = "create_dspace_import" /\ step = "files"
    /\ \E pdf_sizes \in SamplePdfSizes, has_supplemental \in BOOLEAN :
          LET r == copy_package_files(locals.package_data, pdf_sizes, has_supplemental)
          IN  IF r.exc # "none"
              THEN /\ Except(r)
                   /\ files_path' = files_after_copy(files_path, r, student_id(index))
              ELSE /\ files_path' = files_after_copy(files_path, r, student_id(index))
                   /\ locals' = [locals EXCEPT !.package_data.package_files = r.value]
                   /\ step' = "import"
                   /\ UNCHANGED <<pc, error, failure_log, index, doi_ident>>
    /\ UNCHANGED <<inputVars, dspace_import_packages, skipped_import_packages,
                   skipped_log, ready, skipped_dir, dspace_items,
                   postVars, validatorVars, resolverVars,
                   callVars>>

\* Lines 1032-1039: the handle and the URL of the created item.
package_handle(base_url, item_handle) ==
    IF contains(base_url, <<"carleton-dev.scholaris.ca">>)
    THEN base_url \o <<"/handle/">> \o item_handle
    ELSE <<"https://hdl.handle.net/20.500.14718/">> \o item_handle

package_url(base_url, item_id) == base_url \o <<"/items/">> \o item_id

\* The requests of lines 994-1012, in order. A request that fails makes
\* safe_request return None, and the raise_for_status() called on it raises
\* AttributeError (item_creation line 743, provenance_delete line 1056,
\* bundle_creations line 756, upload_files lines 874 and 888).
ImportRequests == <<"item_creation", "provenance_delete", "bundle_creations",
                    "upload_files">>

\* Lines 975-1012 and the else clause, lines 1030-1040: a package named in
\* skipped_ids is logged and moved aside; any other is imported.
SkipOrImport ==
    /\ pc = "create_dspace_import" /\ step = "import"
    /\ IF student_id(index) \in skipped_ids
       THEN /\ skipped_log' = Append(skipped_log,
                  LogEntry(index, "Skipped",
                           student_id(index) \o <<": ", "Skipped (manual processing)">>))
            /\ skipped_import_packages' =
                  Append(skipped_import_packages, locals.package_data)
            /\ \E moved \in BOOLEAN :
                  IF moved
                  THEN /\ ready' = ready \ {student_id(index)}
                       /\ skipped_dir' = skipped_dir \cup {student_id(index)}
                  ELSE UNCHANGED <<ready, skipped_dir>>
            /\ index' = index + 1
            /\ step' = "bag"
            /\ locals' = NoLocals
            /\ doi_ident' = doi_ident_after(doi_ident, "continue")
            /\ dspace_import_packages' =
                  imported_after(dspace_import_packages, locals.package_data,
                                 "continue")
            /\ UNCHANGED <<pc, error, failure_log, dspace_items>>
       ELSE \E failing \in 0..Len(ImportRequests) :
               IF failing # 0
               THEN /\ Except(Raised("AttributeError",
                          [kind |-> "'NoneType' object has no attribute 'raise_for_status'",
                           line |-> <<ImportRequests[failing]>>]))
                    /\ dspace_items' = IF failing > 1 THEN dspace_items + 1
                                                     ELSE dspace_items
                    /\ UNCHANGED <<skipped_log, skipped_import_packages, ready,
                                   skipped_dir, dspace_import_packages>>
               ELSE LET item_id == NumText(dspace_items + 1)
                        item_handle == <<"1","/">> \o NumText(dspace_items + 1)
                    IN  /\ dspace_items' = dspace_items + 1
                        /\ doi_ident' = doi_ident_after(doi_ident, "else")
                        /\ dspace_import_packages' =
                              imported_after(dspace_import_packages,
                                     [locals.package_data EXCEPT
                                         !.handle = package_handle(dspace_base_url,
                                                                   item_handle),
                                         !.url = package_url(dspace_base_url, item_id)],
                                     "else")
                        /\ index' = index + 1
                        /\ step' = "bag"
                        /\ locals' = NoLocals
                        /\ UNCHANGED <<pc, error, failure_log, skipped_log,
                                       skipped_import_packages, ready, skipped_dir>>
    /\ UNCHANGED <<inputVars, files_path, postVars, validatorVars, resolverVars,
                   callVars>>

\* Lines 1042-1048 and process, lines 1867-1884: the loop is over, the lists
\* are returned and post-import processing starts.
ReturnImport ==
    /\ pc = "create_dspace_import" /\ step = "bag" /\ index > NumPackages
    /\ pc' = "post_import_processing"
    /\ UNCHANGED <<inputVars, step, error, importVars, postVars, validatorVars,
                   resolverVars,
                   callVars>>

(***************************************************************************)
(* post_import_processing.                                                 *)
(***************************************************************************)
\* The except clauses of lines 1449-1456.
PostCaught(exc) == exc \in {"GetURLFailedError", "PymarcException"}

PostErrText(exc) ==
    IF exc = "GetURLFailedError" THEN "Link not found in Dspace." ELSE "MARC error "

\* Lines 1444-1459: one iteration of the loop over the imported packages.
PostImportPackage ==
    /\ pc = "post_import_processing"
    /\ post_index <= Len(dspace_import_packages)
    /\ LET package_data == dspace_import_packages[post_index]
           r == create_marc_record(package_data)
       IN  IF r.exc = "none"
           THEN /\ marc_path' = marc_path \cup {package_data.student_id}
                /\ body_element' = Append(body_element,
                                          create_dissertation_element(package_data))
                /\ completed_packages' = Append(completed_packages, package_data)
                /\ post_index' = post_index + 1
                /\ UNCHANGED <<pc, error, post_failure_log>>
           ELSE IF PostCaught(r.exc)
           THEN /\ post_failure_log' = Append(post_failure_log,
                      LogEntry(post_index, r.exc,
                               package_data.student_id \o <<": ", PostErrText(r.exc)>>))
                /\ post_index' = post_index + 1
                /\ UNCHANGED <<pc, error, marc_path, body_element, completed_packages>>
           ELSE /\ pc' = "aborted"
                /\ error' = [exc |-> r.exc, fn |-> "post_import_processing",
                             at |-> "create_marc_record"]
                /\ UNCHANGED postVars
    /\ UNCHANGED <<inputVars, step, importVars, validatorVars, resolverVars,
                   callVars>>

\* Line 1461: the loop is over.
ReturnPostImport ==
    /\ pc = "post_import_processing"
    /\ post_index > Len(dspace_import_packages)
    /\ pc' = "reports"
    /\ UNCHANGED <<inputVars, step, error, importVars, postVars, validatorVars,
                   resolverVars,
                   callVars>>

\* process, lines 1886-1890: the name of the ingest list is built with
\* datetime.date.today(), which raises AttributeError (see create_marc_record).
WriteReports ==
    /\ pc = "reports"
    /\ pc' = "aborted"
    /\ error' = [exc |-> "AttributeError", fn |-> "process", at |-> "csv_file_path"]
    /\ UNCHANGED <<inputVars, step, importVars, postVars, validatorVars, resolverVars,
                   callVars>>

(***************************************************************************)
(* The permissions validator run on one document.                          *)
(***************************************************************************)
\* Lines met in compliance documents: the recognised forms, the malformed
\* ones, and lines that are not expected.
Date(dd, mmm, yy) == dd \o <<"-">> \o mmm \o <<"-">> \o yy
NOV == <<"N","O","V">>
AUG == <<"A","U","G">>
SampleLines ==
    { StudentIDPrefix \o <<":"," ","1">> \o NL,
      <<" ">> \o ThesisIDPrefix \o <<":"," ","7">>,
      EmbargoExpiry \o <<":"," ">> \o Date(<<"0","6">>, NOV, <<"2","6">>),
      EmbargoExpiry \o <<":"," ">> \o Date(<<"0","7">>, NOV, <<"2","6">>) \o NL,
      EmbargoExpiry \o <<":"," ">> \o Date(<<"1","3">>, AUG, <<"1","6">>),
      <<"N","o"," ">> \o EmbargoExpiry,
      FIPPA \o Sep \o <<"1">> \o Sep \o Y \o Sep \o Date(<<"0","6">>, AUG, <<"1","5">>),
      FIPPA \o Sep \o <<"1">> \o Sep \o N,
      LAC \o Sep \o <<"2">> \o Sep \o Y \o NL,
      LAC \o Sep \o <<"2">> \o Sep \o N,
      FIPPA \o <<"2">> \o Sep \o <<"1">> \o Sep \o Y,
      LAC \o Sep \o <<"2">>,
      <<"B","O","O","!">>,
      NL }

\* The documents of at most n lines.
DocsUpTo(n) == UNION {[1..k -> SampleLines] : k \in 0..n}

\* The current date, as <<year, month, day>>.
Days == {<<2026, 11, 6>>, <<2026, 11, 7>>}

Pending == [exc |-> "pending"]

\* No function is called on its own.
NoCall == [fn |-> "none"]

Validate ==
    /\ pc = "process_agreements"
    /\ result = Pending
    /\ result' = process_agreements(content_lines, mappings)
    /\ UNCHANGED <<inputVars, pc, step, error, importVars, postVars,
                   content_lines, today, resolverVars,
                   callVars>>

(***************************************************************************)
(* The resolver: the lookup of the catalog URL of an imported package,     *)
(* with bounded retry and backoff.                                         *)
(***************************************************************************)
\* The fixed maximum number of lookup attempts.
MaxAttempts == 5

\* What one lookup can answer.
Responses == {"match", "no match", "error status"}

\* The wait after the attempt of 0-based index i.
Backoff(i) == i * i

\* One attempt too many.
AttemptsLeftOffByOne(a) == a <= MaxAttempts

\* The bound of the polling loop.
AttemptsLeft(a) == a < MaxAttempts

\* One lookup: a match ends the loop with the URL; otherwise the resolver
\* waits and tries again, while attempts are left.
Lookup ==
    /\ pc = "resolver" /\ resolved = "pending"
    /\ AttemptsLeft(attempt)
    /\ \E response \in Responses :
          /\ lookups' = Append(lookups, response)
          /\ IF response = "match"
             THEN /\ resolved' = "url"
                  /\ UNCHANGED <<attempt, waited>>
             ELSE /\ waited' = waited + Backoff(attempt)
                  /\ attempt' = attempt + 1
                  /\ UNCHANGED resolved
    /\ UNCHANGED <<inputVars, pc, step, error, importVars, postVars, validatorVars,
                   callVars>>

\* All attempts were made without a match.
GiveUp ==
    /\ pc = "resolver" /\ resolved = "pending"
    /\ ~AttemptsLeft(attempt)
    /\ resolved' = "GetURLFailedError"
    /\ UNCHANGED <<inputVars, pc, step, error, importVars, postVars, validatorVars,
                   attempt, waited, lookups, callVars>>

(***************************************************************************)
(* The manifest row: process_value and add_to_csv.                         *)
(***************************************************************************)
\* Python values by type.
PyList(items) == [type |-> "list", items |-> items]
PyStr(text) == [type |-> "str", text |-> text]
PyInt(n) == [type |-> "int", n |-> n]

\* process_value, src/etd_to_dspace_saf.py lines 328-335 (the same function
\* stands at src/etddepositor.py lines 501-508).
process_value(value) ==
    IF value.type = "list" THEN join(Sep, value.items)
    ELSE IF value.type = "str" THEN strip(value.text)
    ELSE NumText(value.n)

\* add_to_csv, lines 339-348: the cell of the file list.
package_files_str(package_files_list) ==
    join(Sep, [i \in DOMAIN package_files_list |-> strip(package_files_list[i])])

(***************************************************************************)
(* DSpaceSession.request and upload_with_retries.                          *)
(***************************************************************************)
\* None returned in place of a response.
NoResponse == [kind |-> "None"]

\* update_csrf_token, lines 166-169: a response that carries the
\* DSPACE-XSRF-TOKEN header replaces the stored token and the header sent
\* with later requests.
update_csrf_token(session, response) ==
    IF response.csrf # None
    THEN [session EXCEPT !.csrf_token = response.csrf,
                         !.headers.X_XSRF_TOKEN = response.csrf]
    ELSE session

\* request with the last except clause left out.
request_without_catch_all(session, outcome) ==
    IF outcome.kind = "response"
    THEN IF outcome.status >= 400 /\ outcome.status < 600
         THEN Returned([response |-> NoResponse, session |-> session])
         ELSE Returned([response |-> outcome,
                        session |-> update_csrf_token(session, outcome)])
    ELSE IF outcome.kind = "RequestException"
    THEN Returned([response |-> NoResponse, session |-> session])
    ELSE Raised(outcome.kind, [kind |-> "unexpected error", line |-> <<>>])

\* DSpaceSession.request, lines 171-187, on what super().request does: it
\* answers with a response, or raises a RequestException (a transport
\* error) or another exception. raise_for_status (line 174) raises HTTPError
\* for a status from 400 to 599. Every except clause prints and falls off
\* the end of the method, which returns None. The result is the value
\* returned and the session as the call leaves it.
request(session, outcome) ==
    IF outcome.kind = "response"
    THEN IF outcome.status >= 400 /\ outcome.status < 600
         THEN Returned([response |-> NoResponse, session |-> session])
         ELSE Returned([response |-> outcome,
                        session |-> update_csrf_token(session, outcome)])
    ELSE Returned([response |-> NoResponse, session |-> session])

\* src/submission_workflow.py, lines 136-155: the same method (it logs where
\* the other prints), called through safe_request.
safe_request(session, outcome) == request(session, outcome)

\* upload_with_retries, src/submission_workflow.py lines 454-467, on the
\* outcomes of the successive requests. response.raise_for_status() at line
\* 459 is called on what safe_request returned: on None it raises
\* AttributeError, which the except clause of line 461 (RequestException)
\* does not catch. The result is the response returned and the number of
\* attempts made.
RECURSIVE upload_with_retries_loop(_, _, _, _)
upload_with_retries_loop(session, outcomes, retries, max_retries) ==
    IF ~(retries < max_retries)
    THEN Returned([response |-> NoResponse, attempts |-> retries])
    ELSE LET r == safe_request(session, outcomes[retries + 1])
         IN  IF r.exc # "none" THEN r
             ELSE IF r.value.response = NoResponse
             THEN Raised("AttributeError",
                         [kind |-> "'NoneType' object has no attribute 'raise_for_status'",
                          line |-> <<>>])
             ELSE IF r.value.response.status >= 400 /\ r.value.response.status < 600
             THEN upload_with_retries_loop(r.value.session, outcomes, retries + 1,
                                           max_retries)
             ELSE Returned([response |-> r.value.response,
                            attempts |-> retries + 1])

upload_with_retries(session, outcomes, max_retries) ==
    upload_with_retries_loop(session, outcomes, 0, max_retries)

(***************************************************************************)
(* Functions called on their own, each on one input.                       *)
(***************************************************************************)
\* The texts of at most n characters over a set of characters.
TextsUpTo(chars, n) == UNION {[1..k -> chars] : k \in 0..n}

\* A text as it stands in an XML element: bare, or with white space around.
Padded(texts) ==
    texts \cup {<<" ">> \o t : t \in texts} \cup {t \o NL : t \in texts}

\* Degree levels found in the metadata.
LevelChars == {"0", "1", "2", "3", " ", "\n"}
LevelTexts == TextsUpTo(LevelChars, MaxText)

\* Language values found in the metadata.
LanguageTexts ==
    Padded({ <<"f","r","e">>, <<"f","r","a">>, <<"g","e","r">>, <<"d","e","u">>,
             <<"s","p","a">>, <<"e","n","g">>, <<>>, <<"f","r">>, <<"e","n">>,
             <<"i","t","a">>, <<"b","l","a">>, <<"E","N","G">> })

\* Subject elements of the metadata: known codes, bare, padded or with a
\* trailing period, an unknown code, and an element without text.
SubjectTexts ==
    { B001, <<" ">> \o B001 \o NL, B013, B013 \o <<".">>, B014,
      <<"U","n","k">>, None }
SubjectElements == UNION {[1..k -> SubjectTexts] : k \in 0..MaxSubjects}

\* Elements of the list-valued fields: names, identifiers, file names, a name
\* that holds the delimiter, and the empty text.
ItemTexts ==
    { <<"a">>, <<"b",","," ","c">>, <<"f",".","p","d","f">>,
      <<"x","|","|","y">>, <<"|">>, <<>> }
ItemLists == UNION {[1..k -> ItemTexts] : k \in 0..MaxItems}
Values ==
    {PyList(l) : l \in ItemLists}
    \cup {PyStr(t) : t \in Padded(ItemTexts)}
    \cup {PyInt(n) : n \in {0, 2021}}

\* Creator names, trimmed and not empty (lines 406-409): without a comma,
\* with one, with more than one.
Creators ==
    {c \in TextsUpTo({"a", ",", " "}, MaxText) : c # <<>> /\ strip(c) = c}
    \cup { <<"D","o","e",","," ","J">>, <<"D","o","e",","," ","J",","," ","J","r">>,
           <<"M","o","n","o">> }

\* Package data of imported packages, as create_dspace_import leaves them.
CompletedPackageData ==
    { [creator |-> c, title |-> <<"T">>, date |-> y,
       doi |-> MintDoi(y, n),
       handle |-> package_handle(dspace_base_url, <<"1","/">> \o NumText(n)),
       url |-> package_url(dspace_base_url, NumText(n))] :
      c \in Creators, y \in {<<"2","0","2","1">>}, n \in {1, 12} }

\* The sizes in bytes of the *pdf files of a data area, in glob order: none,
\* empty files, files of different and of equal sizes.
MaxPdfs == 2
PdfSizeLists == UNION {[1..k -> {0, 3, 8}] : k \in 0..MaxPdfs}

\* Creators and titles of theses, short and long with respect to the length
\* budget of the file name.
LongText(char, n) == [i \in 1..n |-> char]
ThesisCreators ==
    { <<"D","o","e",","," ","J">>, <<"a">>, LongText("a", TitleBudget - 2) }
ThesisTitles ==
    { <<"T">>,
      <<"O","n"," ","a","!"," "," ","B","2">>,
      LongText("x", TitleBudget \div 2) \o <<" ">>
          \o LongText("y", TitleBudget \div 2) \o <<" ">>
          \o LongText("z", TitleBudget \div 2) }

\* Package data given to create_marc_record: titles without and with a
\* subtitle, and subject tuples of two and four elements (tag, heading, ...)
\* and of one and three.
MarcPackageData ==
    [ student_id : {<<"1","0","0">>},
      title : {<<"T">>, <<"A",":"," ","b">>, <<"A",":">>},
      creator : {<<"D","o","e",","," ","J">>},
      deduped_subjects :
          UNION {[1..k -> { <<<<"a">>, Agriculture>>,
                            <<<<"a">>, ForestProducts, <<"x">>, Biotechnology>>,
                            <<<<"a">>>>,
                            <<<<"a">>, Wood, <<"x">>>> }] : k \in 0..MaxSubjects} ]

\* What super().request can do: answer with a status, with or without a
\* CSRF token in the headers, or raise.
HttpOutcomes ==
    [kind : {"response"}, status : {200, 304, 404, 500},
     csrf : {None, <<"t","2">>}]
    \cup [kind : {"RequestException", "Exception"}]

\* Sessions before and after authentication, with and without a CSRF token.
Sessions ==
    { [auth_token |-> a, csrf_token |-> c, headers |-> [X_XSRF_TOKEN |-> c]] :
      a \in {None, <<"B","e","a","r","e","r">>}, c \in {None, <<"t","1">>} }

\* The largest max_retries given to upload_with_retries.
MaxRetries == 3

\* The outcomes of the successive upload requests.
UploadOutcomes ==
    [1..MaxRetries -> { [kind |-> "response", status |-> 200, csrf |-> None],
                        [kind |-> "response", status |-> 500, csrf |-> None],
                        [kind |-> "RequestException"] }]

Calls ==
    [fn : {"create_dissertation_element"}, package_data : CompletedPackageData]
    \cup [fn : {"request"}, session : Sessions, outcome : HttpOutcomes]
    \cup [fn : {"upload_with_retries"},
          session : {[auth_token |-> None, csrf_token |-> None,
                      headers |-> [X_XSRF_TOKEN |-> None]]},
          outcomes : UploadOutcomes, max_retries : 0..MaxRetries]
    \cup [fn : {"create_marc_record"}, package_data : MarcPackageData]
    \cup [fn : {"copy_thesis_pdf"},
          package_data : [creator : ThesisCreators, title : ThesisTitles],
          pdf_sizes : PdfSizeLists]
    \cup
    [fn : {"process_value"}, value : Values]
    \cup [fn : {"add_to_csv"}, package_files : ItemLists] \cup
    [fn : {"process_subjects"}, subject_elements : SubjectElements]
    \cup [fn : {"process_degree_level"}, level : LevelTexts]
    \cup [fn : {"process_language"}, language : LanguageTexts]

ProcessDegreeLevel ==
    /\ pc = "call" /\ call.fn = "process_degree_level" /\ returned = Pending
    /\ returned' = process_degree_level(call.level)
    /\ UNCHANGED <<inputVars, pc, step, error, importVars, postVars, validatorVars,
                   resolverVars, call>>

ProcessLanguage ==
    /\ pc = "call" /\ call.fn = "process_language" /\ returned = Pending
    /\ returned' = process_language(call.language)
    /\ UNCHANGED <<inputVars, pc, step, error, importVars, postVars, validatorVars,
                   resolverVars, call>>

ProcessSubjects ==
    /\ pc = "call" /\ call.fn = "process_subjects" /\ returned = Pending
    /\ returned' = process_subjects(call.subject_elements, mappings)
    /\ UNCHANGED <<inputVars, pc, step, error, importVars, postVars, validatorVars,
                   resolverVars, call>>

ProcessValue ==
    /\ pc = "call" /\ call.fn = "process_value" /\ returned = Pending
    /\ returned' = Returned(process_value(call.value))
    /\ UNCHANGED <<inputVars, pc, step, error, importVars, postVars, validatorVars,
                   resolverVars, call>>

AddToCsv ==
    /\ pc = "call" /\ call.fn = "add_to_csv" /\ returned = Pending
    /\ returned' = Returned(package_files_str(call.package_files))
    /\ UNCHANGED <<inputVars, pc, step, error, importVars, postVars, validatorVars,
                   resolverVars, call>>

CreateMarcRecord ==
    /\ pc = "call" /\ call.fn = "create_marc_record" /\ returned = Pending
    /\ returned' = create_marc_record(call.package_data)
    /\ UNCHANGED <<inputVars, pc, step, error, importVars, postVars, validatorVars,
                   resolverVars, call>>

Request ==
    /\ pc = "call" /\ call.fn = "request" /\ returned = Pending
    /\ returned' = request(call.session, call.outcome)
    /\ UNCHANGED <<inputVars, pc, step, error, importVars, postVars, validatorVars,
                   resolverVars, call>>

UploadWithRetries ==
    /\ pc = "call" /\ call.fn = "upload_with_retries" /\ returned = Pending
    /\ returned' = upload_with_retries(call.session, call.outcomes,
                                       call.max_retries)
    /\ UNCHANGED <<inputVars, pc, step, error, importVars, postVars, validatorVars,
                   resolverVars, call>>

CopyThesisPdf ==
    /\ pc = "call" /\ call.fn = "copy_thesis_pdf" /\ returned = Pending
    /\ returned' = copy_thesis_pdf(call.package_data, call.pdf_sizes)
    /\ UNCHANGED <<inputVars, pc, step, error, importVars, postVars, validatorVars,
                   resolverVars, call>>

CreateDissertationElement ==
    /\ pc = "call" /\ call.fn = "create_dissertation_element"
    /\ returned = Pending
    /\ returned' = Returned(create_dissertation_element(call.package_data))
    /\ UNCHANGED <<inputVars, pc, step, error, importVars, postVars, validatorVars,
                   resolverVars, call>>

(***************************************************************************)
(* Specifications.                                                         *)
(***************************************************************************)
\* Everything but the position and the inputs, as it is before a run.
InitRest ==
    /\ mappings = LoadedMappings
    /\ step = "bag"
    /\ error = NoError
    /\ index = 1
    /\ locals = NoLocals
    /\ doi_ident = doi_start
    /\ dspace_import_packages = <<>>
    /\ skipped_import_packages = <<>>
    /\ failure_log = <<>>
    /\ skipped_log = <<>>
    /\ files_path = {}
    /\ ready = {student_id(p) : p \in Packages}
    /\ skipped_dir = {}
    /\ marc_path = {}
    /\ dspace_items = 0
    /\ post_index = 1
    /\ completed_packages = <<>>
    /\ body_element = <<>>
    /\ post_failure_log = <<>>
    /\ result = Pending
    /\ attempt = 0
    /\ waited = 0
    /\ lookups = <<>>
    /\ resolved = "pending"

\* A run of process over the packages of the ready area.
Init ==
    /\ pc = "create_dspace_import"
    /\ invalid_ok \in BOOLEAN
    /\ doi_start \in DoiStarts
    /\ skipped_ids \in SkippedIdSets
    /\ content_lines = <<>>
    /\ today = <<2026, 11, 6>>
    /\ call = NoCall
    /\ returned = Pending
    /\ InitRest

Next ==
    \/ CheckBag
    \/ ReadPermissions
    \/ ExtractMetadata
    \/ CopyPackageFiles
    \/ SkipOrImport
    \/ ReturnImport
    \/ PostImportPackage
    \/ ReturnPostImport
    \/ WriteReports

Spec == Init /\ [][Next]_vars

\* process_agreements applied to one document on one day.
InitValidator ==
    /\ pc = "process_agreements"
    /\ invalid_ok = FALSE
    /\ doi_start = 1
    /\ skipped_ids = {}
    /\ content_lines \in DocsUpTo(MaxLines)
    /\ today \in Days
    /\ call = NoCall
    /\ returned = Pending
    /\ InitRest

NextValidator == Validate

SpecValidator == InitValidator /\ [][NextValidator]_vars

\* The resolver run for one package.
InitResolver ==
    /\ pc = "resolver"
    /\ invalid_ok = FALSE
    /\ doi_start = 1
    /\ skipped_ids = {}
    /\ content_lines = <<>>
    /\ today = <<2026, 11, 6>>
    /\ call = NoCall
    /\ returned = Pending
    /\ InitRest

NextResolver == Lookup \/ GiveUp

SpecResolver == InitResolver /\ [][NextResolver]_vars /\ WF_vars(NextResolver)

\* One function applied to one input.
InitCalls ==
    /\ pc = "call"
    /\ invalid_ok = FALSE
    /\ doi_start = 1
    /\ skipped_ids = {}
    /\ content_lines = <<>>
    /\ today = <<2026, 11, 6>>
    /\ call \in Calls
    /\ returned = Pending
    /\ InitRest

NextCalls ==
    \/ ProcessDegreeLevel
    \/ ProcessLanguage
    \/ ProcessSubjects
    \/ ProcessValue
    \/ AddToCsv
    \/ CreateDissertationElement
    \/ CopyThesisPdf
    \/ Request
    \/ UploadWithRetries
    \/ CreateMarcRecord

SpecCalls == InitCalls /\ [][NextCalls]_vars

(***************************************************************************)
(* Properties.                                                             *)
(***************************************************************************)
\* The sequence number of a DOI: the digits after its last hyphen (-1 when
\* there are none).
DoiSequence(doi) ==
    LET parts == split(doi, <<"-">>)
        last == parts[Len(parts)]
    IN  IF Len(parts) >= 2 /\ IsDigits(last) THEN NumVal(last) ELSE -1

\* C1: the DOI counter is advanced once for each imported package and by
\* nothing else: at every point of create_dspace_import it equals doi_start
\* plus the number of packages imported so far, and between two packages the
\* packages that failed or were skipped make up the rest of those processed.
DoiCounterCountsImported ==
    /\ doi_ident = doi_start + Len(dspace_import_packages)
    /\ (pc = "create_dspace_import" /\ step = "bag") =>
          index - 1 = Len(dspace_import_packages) + Len(failure_log)
                      + Len(skipped_log)

DoiCounterWitness ==
    /\ pc = "post_import_processing"
    /\ Len(failure_log) = 1 /\ failure_log[1].iteration = 1
    /\ Len(dspace_import_packages) = 1
    /\ doi_ident = doi_start + 1

CaughtErrorsLoggedOnce ==
    /\ ~(pc = "aborted"
         /\ error.exc \in {"MetadataError", "MissingFileError", "ParseError"})
    /\ \A i, j \in DOMAIN failure_log :
          i < j => failure_log[i].iteration < failure_log[j].iteration
    /\ \A i \in DOMAIN failure_log : failure_log[i].iteration < index
    /\ (pc = "create_dspace_import" /\ step = "bag") =>
          index - 1 = Len(dspace_import_packages) + Len(failure_log)
                      + Len(skipped_log)
    /\ pc \in {"post_import_processing", "reports"} => index = NumPackages + 1

CaughtErrorsWitness ==
    /\ pc = "post_import_processing"
    /\ Len(failure_log) = 1
    /\ failure_log[1].exc = "MetadataError" /\ failure_log[1].iteration = 1
    /\ Len(dspace_import_packages) = 1
    /\ dspace_import_packages[1].student_id = student_id(2)

PostImportFailureDoesNotAbort ==
    ~(pc = "aborted" /\ error.fn = "post_import_processing")

\* C8: the resolver makes at most MaxAttempts lookups, has waited i * i after
\* each unsuccessful attempt i, and ends: with the URL, on the lookup that
\* matched, or with GetURLFailedError, after MaxAttempts lookups without a
\* match.
RECURSIVE SquaresBelow(_)
SquaresBelow(n) == IF n = 0 THEN 0 ELSE (n - 1) * (n - 1) + SquaresBelow(n - 1)

ResolverBoundedAndEnds ==
    /\ [](pc = "resolver" =>
            /\ Len(lookups) <= MaxAttempts
            /\ attempt <= MaxAttempts
            /\ waited = SquaresBelow(attempt)
            /\ resolved \in {"pending", "url", "GetURLFailedError"}
            /\ resolved = "url" =>
                  /\ lookups # <<>>
                  /\ lookups[Len(lookups)] = "match"
                  /\ \A i \in 1..(Len(lookups) - 1) : lookups[i] # "match"
            /\ resolved = "GetURLFailedError" =>
                  /\ Len(lookups) = MaxAttempts
                  /\ \A i \in DOMAIN lookups : lookups[i] # "match")
    /\ <>(resolved # "pending")

ResolverWitness ==
    /\ pc = "resolver"
    /\ resolved = "GetURLFailedError"
    /\ Len(lookups) = MaxAttempts
    /\ waited = SquaresBelow(MaxAttempts)

\* The date a line ends with, read as DD-MMM-YY: <<year, month, day>>.
MonthNames ==
    << <<"J","A","N">>, <<"F","E","B">>, <<"M","A","R">>, <<"A","P","R">>,
       <<"M","A","Y">>, <<"J","U","N">>, <<"J","U","L">>, <<"A","U","G">>,
       <<"S","E","P">>, <<"O","C","T">>, <<"N","O","V">>, <<"D","E","C">> >>

HasExpiryDate(line) ==
    LET t == strip(line)
        n == Len(t)
    IN  /\ startswith(t, EmbargoExpiry)
        /\ n >= Len(EmbargoExpiry) + 9
        /\ IsDigits(SubSeq(t, n - 8, n - 7))
        /\ t[n - 6] = "-"
        /\ \E k \in DOMAIN MonthNames : MonthNames[k] = SubSeq(t, n - 5, n - 3)
        /\ t[n - 2] = "-"
        /\ IsDigits(SubSeq(t, n - 1, n))

ExpiryDate(line) ==
    LET t == strip(line)
        n == Len(t)
    IN  << 2000 + NumVal(SubSeq(t, n - 1, n)),
           CHOOSE k \in DOMAIN MonthNames : MonthNames[k] = SubSeq(t, n - 5, n - 3),
           NumVal(SubSeq(t, n - 8, n - 7)) >>

IsAfter(d, e) ==
    \/ d[1] > e[1]
    \/ d[1] = e[1] /\ d[2] > e[2]
    \/ d[1] = e[1] /\ d[2] = e[2] /\ d[3] > e[3]

\* C9: a document whose first line gives an embargo expiry date, and whose
\* other lines are accepted, is rejected with MetadataError exactly when that
\* date is after the current date.
EmbargoRejectedExactlyWhenFuture ==
    (pc = "process_agreements" /\ result # Pending /\ content_lines # <<>>
     /\ HasExpiryDate(content_lines[1])
     /\ process_agreements(Tail(content_lines), mappings).exc = "none") =>
        (IsAfter(ExpiryDate(content_lines[1]), today) <=> result.exc = "MetadataError")

\* The line begins with one of the recognised prefixes.
Recognised(line) ==
    \/ startswith(line, StudentIDPrefix)
    \/ startswith(line, ThesisIDPrefix)
    \/ startswith(line, EmbargoExpiry)
    \/ \E name \in DOMAIN mappings.agreements : startswith(line, name)

\* C10: the first line of a document that begins with none of the recognised
\* prefixes, wherever it stands after lines that were accepted, makes the
\* validator raise MetadataError quoting that line.
UnrecognisedLineRejected ==
    (pc = "process_agreements" /\ result # Pending) =>
        \A i \in DOMAIN content_lines :
            ( /\ ~Recognised(strip(content_lines[i]))
              /\ process_agreements(SubSeq(content_lines, 1, i - 1), mappings).exc
                 = "none" ) =>
                result = Raised("MetadataError",
                                [kind |-> "was not expected",
                                 line |-> strip(content_lines[i])])

\* An agreement line in the form name||id||flag, its name in the mapping.
IsAgreementLine(line) ==
    LET line_split == split(line, Sep)
    IN  /\ ~startswith(line, StudentIDPrefix)
        /\ ~startswith(line, ThesisIDPrefix)
        /\ ~startswith(line, EmbargoExpiry)
        /\ Len(line_split) >= 3
        /\ line_split[1] \in DOMAIN mappings.agreements

\* A line of one of the recognised forms.
IsRecognisedLine(line) ==
    \/ startswith(line, StudentIDPrefix)
    \/ startswith(line, ThesisIDPrefix)
    \/ startswith(line, EmbargoExpiry)
    \/ IsAgreementLine(line)

IsSigned(line) == split(line, Sep)[3] = Y

\* The identifiers of the signed agreement lines from line i on, in order.
RECURSIVE SignedIdentifiers(_, _)
SignedIdentifiers(lines, i) ==
    IF i > Len(lines) THEN <<>>
    ELSE LET line == strip(lines[i])
         IN  (IF IsAgreementLine(line) /\ IsSigned(line)
              THEN <<mappings.agreements[split(line, Sep)[1]].identifier>>
              ELSE <<>>) \o SignedIdentifiers(lines, i + 1)

DegreeLevelOneOrTwoOnly ==
    (pc = "call" /\ call.fn = "process_degree_level" /\ returned # Pending) =>
        IF strip(call.level) \in {<<"1">>, <<"2">>}
        THEN returned.exc = "none"
        ELSE returned.exc = "MetadataError"

DegreeLevelWitness ==
    /\ pc = "call" /\ call.fn = "process_degree_level"
    /\ call.level = <<"3">>
    /\ returned.exc = "MetadataError"

\* The canonical three-letter code of a language value, <<>> when it has none.
CanonicalLanguage(l) ==
    IF l \in {<<"f","r","e">>, <<"f","r","a">>} THEN <<"f","r","a">>
    ELSE IF l \in {<<"g","e","r">>, <<"d","e","u">>} THEN <<"d","e","u">>
    ELSE IF l = <<"s","p","a">> THEN <<"s","p","a">>
    ELSE IF l \in {<<"e","n","g">>, <<>>} THEN <<"e","n","g">>
    ELSE <<>>

\* C16: process_language returns the canonical three-letter code of every
\* accepted value and raises MetadataError for every other value.
LanguageCanonicalThreeLetters ==
    (pc = "call" /\ call.fn = "process_language" /\ returned # Pending) =>
        LET code == CanonicalLanguage(strip(call.language))
        IN  IF code # <<>>
            THEN returned = Returned(code)
            ELSE returned.exc = "MetadataError"

\* The tuples mapped to the codes of the elements, in document order.
RECURSIVE TuplesInOrder(_)
TuplesInOrder(elements) ==
    IF elements = <<>> THEN <<>>
    ELSE LET code == subject_code(Head(elements))
         IN  (IF code \in DOMAIN mappings.lc_subject
              THEN mappings.lc_subject[code] ELSE <<>>)
             \o TuplesInOrder(Tail(elements))

\* A list with every repeat of an earlier element removed.
RECURSIVE FirstSeen(_)
FirstSeen(list) ==
    IF list = <<>> THEN <<>>
    ELSE LET front == FirstSeen(SubSeq(list, 1, Len(list) - 1))
             last == list[Len(list)]
         IN  IF \E k \in 1..(Len(list) - 1) : list[k] = last
             THEN front ELSE Append(front, last)

HasText(elements) == \A i \in DOMAIN elements : elements[i] # None

WithoutPeriod(s) ==
    IF s # <<>> /\ s[Len(s)] = "." THEN SubSeq(s, 1, Len(s) - 1) ELSE s

\* C14: the value rendered for a subject tuple is its primary heading
\* without the trailing period, followed by " -- " and the secondary heading
\* without its trailing period when the tuple has 4 elements.
SubjectValueKeepsSecondaryHeading ==
    (pc = "call" /\ call.fn = "process_subjects" /\ returned # Pending
     /\ returned.exc = "none") =>
        /\ Len(returned.value[2]) = Len(returned.value[1])
        /\ \A i \in DOMAIN returned.value[1] :
              LET entry == returned.value[1][i]
              IN  returned.value[2][i] =
                     WithoutPeriod(entry[2])
                     \o (IF Len(entry) = 4
                         THEN <<" ","-","-"," ">> \o WithoutPeriod(entry[4])
                         ELSE <<>>)

\* C15: a list-valued field joined with the delimiter and split on the
\* delimiter again is the list it was.
ManifestRoundTrip ==
    (pc = "call" /\ returned # Pending) =>
        /\ (call.fn = "process_value" /\ call.value.type = "list") =>
              split(returned.value, Sep) = call.value.items
        /\ call.fn = "add_to_csv" =>
              split(returned.value, Sep) = call.package_files

\* The text ends with the suffix.
EndsWith(s, suffix) ==
    /\ Len(s) >= Len(suffix)
    /\ SubSeq(s, Len(s) - Len(suffix) + 1, Len(s)) = suffix

\* C17: every imported package has a package_files list of one or two
\* names, the first the primary document (.pdf) and the second, when
\* there is one, the supplemental archive.
PackageFilesPrimaryFirst ==
    \A i \in DOMAIN dspace_import_packages :
        LET package_files == dspace_import_packages[i].package_files
        IN  /\ Len(package_files) \in {1, 2}
            /\ EndsWith(package_files[1], <<".","p","d","f">>)
            /\ Len(package_files) = 2 =>
                  /\ EndsWith(package_files[2], <<".","z","i","p">>)
                  /\ package_files[2] =
                        SubSeq(package_files[1], 1, Len(package_files[1]) - 4)
                        \o <<"-","s","u","p","p","l","e","m","e","n","t","a","l",
                             ".","z","i","p">>

PackageFilesWitness ==
    /\ Len(dspace_import_packages) = 2
    /\ Len(dspace_import_packages[1].package_files) = 2
    /\ Len(dspace_import_packages[2].package_files) = 1

\* C18: the creator of a dissertation element is split at its first comma
\* into the trimmed surname before it and the trimmed given name after it; a
\* creator without a comma is the surname and the given name is empty.
CreatorSplitAtFirstComma ==
    (pc = "call" /\ call.fn = "create_dissertation_element"
     /\ returned # Pending) =>
        LET creator == call.package_data.creator
            comma == IndexOf(creator, ",")
        IN  IF comma = 0
            THEN /\ returned.value.surname = strip(creator)
                 /\ returned.value.given_name = <<>>
            ELSE /\ returned.value.surname = strip(SubSeq(creator, 1, comma - 1))
                 /\ returned.value.given_name =
                       strip(SubSeq(creator, comma + 1, Len(creator)))

\* C19: the doi_data of a dissertation element holds the DOI of the package
\* and, as resource, the url of the package.
DoiDataResourceIsUrl ==
    (pc = "call" /\ call.fn = "create_dissertation_element"
     /\ returned # Pending) =>
        /\ returned.value.doi = call.package_data.doi
        /\ returned.value.resource = call.package_data.url

\* C20: every entry of the failure log, of the skip log and of the
\* post-import failure log names the package it is about.
EveryLogEntryNamesItsPackage ==
    /\ \A i \in DOMAIN failure_log :
          contains(failure_log[i].text, student_id(failure_log[i].iteration))
    /\ \A i \in DOMAIN skipped_log :
          contains(skipped_log[i].text, student_id(skipped_log[i].iteration))
    /\ \A i \in DOMAIN post_failure_log :
          contains(post_failure_log[i].text,
                   dspace_import_packages[post_failure_log[i].iteration].student_id)


\* An agreement line that is malformed: it starts with a recognised agreement
\* name and reaches the agreement branch, but has fewer than three fields or
\* a first field that is not exactly an agreement name.
IsMalformedAgreementLine(line) ==
    /\ LineBranch(line, mappings) = "agreement"
    /\ LET line_split == split(line, Sep)
       IN  \/ Len(line_split) < 3
           \/ line_split[1] \notin DOMAIN mappings.agreements

\* C22: a malformed agreement line, met after lines that were accepted, makes
\* the validator raise MetadataError (the error the batch loop catches and
\* logs for that package), never another error.
MalformedAgreementLineIsMetadataError ==
    (pc = "process_agreements" /\ result # Pending) =>
        \A i \in DOMAIN content_lines :
            ( /\ IsMalformedAgreementLine(strip(content_lines[i]))
              /\ process_agreements(SubSeq(content_lines, 1, i - 1), mappings).exc
                 = "none" ) =>
                result.exc = "MetadataError"


\* C23: copy_thesis_pdf fails exactly when the data area has no candidate
\* .pdf file; with at least one candidate, of any size including zero bytes,
\* it succeeds and copies a candidate of maximal size.
ThesisPdfFailsOnlyWithoutCandidate ==
    (pc = "call" /\ call.fn = "copy_thesis_pdf" /\ returned # Pending) =>
        IF call.pdf_sizes = <<>>
        THEN returned.exc = "MetadataError"
        ELSE /\ returned.exc = "none"
             /\ \A i \in DOMAIN call.pdf_sizes :
                   call.pdf_sizes[i] <= call.pdf_sizes[returned.value.source]

\* C24: the destination name without its extension (creator part, "--",
\* hyphen-joined title words) is at most 120 characters long, for every
\* creator and title.
ThesisFileNameWithinBudget ==
    (pc = "call" /\ call.fn = "copy_thesis_pdf" /\ returned # Pending
     /\ returned.exc = "none") =>
        Len(returned.value.name) - Len(<<".","p","d","f">>) <= 120


\* C25: create_marc_record writes the record, with one 650 field for each
\* subject tuple with an even number of elements, in list order; a tuple
\* with an odd number of elements is skipped and does not abort the record.
MarcRecordWrittenWithEvenSubjects ==
    (pc = "call" /\ call.fn = "create_marc_record" /\ returned # Pending) =>
        /\ returned.exc = "none"
        /\ returned.value.subject_fields =
              SelectSeq(call.package_data.deduped_subjects,
                        LAMBDA t : Len(t) % 2 = 0)


\* C26: the mapping tables are unchanged by a run: after any sequence of
\* package validations, extractions and artifact generations, successful or
\* failed, every mapping (agreements, abbreviation, discipline, lc_subject)
\* holds exactly the keys and values it held when loaded.
MappingsUnchanged ==
    /\ DOMAIN mappings = {"agreements", "abbreviation", "discipline", "lc_subject"}
    /\ \A table \in DOMAIN mappings :
          /\ DOMAIN mappings[table] = DOMAIN LoadedMappings[table]
          /\ \A key \in DOMAIN mappings[table] :
                mappings[table][key] = LoadedMappings[table][key]

\* A package was extracted with a degree and a discipline that the tables
\* do not hold and was imported, and another package failed.
MappingsUnchangedWitness ==
    /\ failure_log # <<>>
    /\ \E i \in DOMAIN dspace_import_packages :
          /\ dspace_import_packages[i].abbreviation = FLAG
          /\ dspace_import_packages[i].degree_discipline = FLAG
    /\ pc = "aborted"
    /\ error.fn = "post_import_processing"


\* The outcomes of the package met at iteration p of create_dspace_import.
IsImported(p) ==
    \E i \in DOMAIN dspace_import_packages :
        dspace_import_packages[i].student_id = student_id(p)
IsLoggedFailed(p) == \E i \in DOMAIN failure_log : failure_log[i].iteration = p
IsLoggedSkipped(p) == \E i \in DOMAIN skipped_log : skipped_log[i].iteration = p

\* C27: after create_dspace_import returned, every input package is in
\* exactly one outcome: in the imported list, or with an entry in the failure
\* log, or with an entry in the skip log; none is in two of them or in none,
\* also when the move of a skipped package to the skipped area failed.
EveryPackageInOneOutcome ==
    ( \/ pc \in {"post_import_processing", "reports"}
      \/ pc = "aborted" /\ error.fn # "create_dspace_import" ) =>
        /\ \A p \in Packages :
              /\ IsImported(p) \/ IsLoggedFailed(p) \/ IsLoggedSkipped(p)
              /\ ~(IsImported(p) /\ IsLoggedFailed(p))
              /\ ~(IsImported(p) /\ IsLoggedSkipped(p))
              /\ ~(IsLoggedFailed(p) /\ IsLoggedSkipped(p))
        /\ Len(dspace_import_packages) + Len(failure_log) + Len(skipped_log)
           = NumPackages

\* The function returned after a skipped package whose move failed (it is
\* still in the ready area), and another package was imported.
EveryPackageInOneOutcomeWitness ==
    /\ pc = "post_import_processing"
    /\ \E p \in Packages :
          IsLoggedSkipped(p) /\ student_id(p) \in ready
          /\ student_id(p) \notin skipped_dir
    /\ \E p \in Packages : IsImported(p)


\* C28: within one run no two packages are staged under the same destination
\* file name: the files copied into the files area for an imported or
\* skipped package are still those of that package, never overwritten by
\* the files of a later package.
StagedFilesNeverOverwritten ==
    /\ \A i \in DOMAIN dspace_import_packages :
          LET package_data == dspace_import_packages[i]
          IN  \A k \in DOMAIN package_data.package_files :
                 [name |-> package_data.package_files[k],
                  source |-> package_data.student_id] \in files_path
    /\ \A i \in DOMAIN skipped_import_packages :
          LET package_data == skipped_import_packages[i]
          IN  \A k \in DOMAIN package_data.package_files :
                 [name |-> package_data.package_files[k],
                  source |-> package_data.student_id] \in files_path


\* C29: upload_with_retries makes at most max_retries attempts, never lets an
\* error escape, returns the response of the first attempt that succeeds
\* after retrying every failed attempt before it, and returns None once
\* max_retries attempts have failed.
UploadRetriesUntilLimit ==
    (pc = "call" /\ call.fn = "upload_with_retries" /\ returned # Pending) =>
        LET succeeded == {i \in 1..call.max_retries :
                            /\ call.outcomes[i].kind = "response"
                            /\ call.outcomes[i].status < 400}
        IN  /\ returned.exc = "none"
            /\ returned.value.attempts <= call.max_retries
            /\ IF succeeded # {}
               THEN LET first == CHOOSE i \in succeeded :
                                    \A j \in succeeded : i <= j
                    IN  /\ returned.value.response = call.outcomes[first]
                        /\ returned.value.attempts = first
               ELSE /\ returned.value.response = NoResponse
                    /\ returned.value.attempts = call.max_retries

\* C30: DSpaceSession.request never raises. It returns the response only
\* when the request was answered with a status that is not an error status,
\* and then stores the CSRF token of the response if it carries one; after
\* an HTTP error status, a transport error or any other exception it returns
\* None and leaves the stored auth token and CSRF token as they were.
RequestNeverRaises ==
    (pc = "call" /\ call.fn = "request" /\ returned # Pending) =>
        /\ returned.exc = "none"
        /\ returned.value.session.auth_token = call.session.auth_token
        /\ IF call.outcome.kind = "response" /\ call.outcome.status < 400
           THEN /\ returned.value.response = call.outcome
                /\ returned.value.session.csrf_token =
                      IF call.outcome.csrf # None THEN call.outcome.csrf
                      ELSE call.session.csrf_token
           ELSE /\ returned.value.response = NoResponse
                /\ returned.value.session = call.session

\* A request raised an exception that is not a RequestException, on a
\* session that holds both tokens.
RequestNeverRaisesWitness ==
    /\ pc = "call" /\ call.fn = "request" /\ returned # Pending
    /\ call.outcome.kind = "Exception"
    /\ call.session.auth_token # None /\ call.session.csrf_token # None
    /\ returned.value.response = NoResponse

====
